---- MODULE Spec2Model ----
(***************************************************************************)
(* VOKATRA checkout / payment-confirmation protocol.                       *)
(*                                                                         *)
(* create_checkout_session.js (handleOrder, handleDonation) and            *)
(* stripe_webhook.js (handler, handlePaymentConfirmed, handlePaymentFailed,*)
(* handleRefund) against one datastore and one payment processor.          *)
(*                                                                         *)
(* Every await on the datastore or on the payment processor ends an        *)
(* action, so handlers interleave exactly at their suspension points.      *)
(* Two consecutive awaits are folded into one action only where the first  *)
(* one cannot be observed by, and cannot observe, any other handler: a     *)
(* read of the never-written delivery_dates table, or a datastore call     *)
(* that returned an error and therefore changed nothing.                   *)
(* The supabase client does not throw: every call yields {data, error},    *)
(* so each call has a fault input that says whether it returned an error.  *)
(***************************************************************************)
EXTENDS Integers, Sequences, FiniteSets, TLC

\* ---------------------------------------------------------------- bounds
MaxOrders    == 2      \* order headers ever inserted
MaxDonations == 1      \* donation rows ever inserted
MaxCartLen   == 2      \* lines in a submitted cart
MaxQty       == 1      \* largest quantity on a cart line
InitStock    == 2      \* stock_qty of every product at start
MaxMissing   == 2      \* required fields absent from one request

\* ------------------------------------------------------------ the tables
None == "none"

ProductIds     == {"p1", "p2"}          \* rows of the products table
UnknownProduct == "px"                  \* an id with no row
SellableIds    == {"p1"}                \* products whose active flag is set
UnitPriceCents == 3                     \* unit_price_cents of every product
ClientPrices   == {1}                   \* price field a client puts in the cart

DateIds     == {"d1", "d2"}             \* rows of delivery_dates
ActiveDates == {"d1"}
UnknownDate == "dx"

OrderIds    == 1 .. MaxOrders
DonationIds == 1 .. MaxDonations

Clients == {"c1"}

\* A payment session of the processor; its id also carries the metadata
\* {type, order_id | donation_id} the session was created with.
SessionId(type, id) == <<type, id>>
ForeignSession      == <<"foreign", 0>> \* a session this system did not create
NoSession           == <<None, 0>>      \* null in a session id column
NoIntent            == <<None, None, 0>> \* null in a payment intent column
AllSessions == {SessionId("order", o) : o \in OrderIds}
                 \cup {SessionId("donation", d) : d \in DonationIds}
\* the payment intent the processor attaches to a session
PaymentIntentOf(sid) == <<"pi", sid[1], sid[2]>>

VARIABLES
    products,      \* products table: id -> [unit_price_cents, stock_qty, active]
    orders,        \* orders table: id -> row, for the ids that have a row
    order_items,   \* order_items table: order id -> sequence of item rows
    donations,     \* donations table: id -> row
    nextOrderId,   \* next generated order id
    nextDonationId,
    sessions,      \* sessions the payment processor has created
    ckt,           \* per checkout invocation: position and local variables
    resp,          \* the checkout response returned by this step, if any
    hook,          \* the notification handled by this step and its response
    decr           \* order id -> how often its items were taken from stock

vars == <<products, orders, order_items, donations, nextOrderId,
          nextDonationId, sessions, ckt, resp, hook, decr>>

\* ------------------------------------------------------------- helpers
RECURSIVE SumSeq(_)
SumSeq(s) == IF s = <<>> THEN 0 ELSE Head(s) + SumSeq(Tail(s))

\* quantity of product p over the item rows of a sequence
QtyOf(items, p) ==
    SumSeq([i \in 1 .. Len(items) |->
              IF items[i].product_id = p THEN items[i].qty ELSE 0])

ItemsOf(o) == IF o \in DOMAIN order_items THEN order_items[o] ELSE <<>>

\* first, firstRead and nFailing record, for an order request, what the
\* listed checks say about it (see FirstFailure)
Idle == [pc |-> "idle", kind |-> None,
         orderItems |-> <<>>, totalCents |-> 0, id |-> 0,
         session |-> NoSession, badCart |-> FALSE,
         first |-> None, firstRead |-> None, nFailing |-> 0]

NoResp == [kind |-> None, statusCode |-> 0, error |-> None, id |-> 0,
           session |-> NoSession, badCart |-> FALSE, nItems |-> 0,
           first |-> None, firstRead |-> None, nFailing |-> 0]

NoHook == [post |-> FALSE, sigOk |-> FALSE, kind |-> None,
           sid |-> ForeignSession, ref |-> FALSE, fault |-> FALSE,
           statusCode |-> 0, threw |-> FALSE, success |-> FALSE]

\* response(statusCode, body) as the invocation l returns it: the status
\* and message, with the record and the session the invocation was about
response(l, statusCode, error) ==
    [kind |-> l.kind, statusCode |-> statusCode, error |-> error,
     id |-> l.id, session |-> l.session, badCart |-> l.badCart,
     nItems |-> Len(l.orderItems),
     first |-> l.first, firstRead |-> l.firstRead, nFailing |-> l.nFailing]

\* no response is pending delivery: a new step of some handler can run
Quiet == resp = NoResp /\ hook = NoHook

\* ------------------------------------------------------------- requests
RequiredFields == {"firstName", "lastName", "address", "churchName",
                   "sectionName", "deliveryAddress", "dateId"}

FieldSets == {RequiredFields \ m : m \in
                {s \in SUBSET RequiredFields : Cardinality(s) <= MaxMissing}}

\* A cart line.  For a product that has no row nothing but the id is
\* looked at, so one quantity is enough there.
Lines ==
    [productId : ProductIds, qty : 0 .. MaxQty, price : ClientPrices]
      \cup [productId : {UnknownProduct}, qty : {1}, price : ClientPrices]

RECURSIVE SeqsUpTo(_, _)
SeqsUpTo(S, n) ==
    IF n = 0 THEN {<<>>}
    ELSE LET shorter == SeqsUpTo(S, n - 1)
         IN shorter \cup {Append(s, x) : s \in {t \in shorter : Len(t) = n - 1},
                                         x \in S}

Carts == SeqsUpTo(Lines, MaxCartLen)

GoodLine == [productId |-> "p1", qty |-> 1, price |-> 1]
BadLine  == [productId |-> UnknownProduct, qty |-> 1, price |-> 1]
ProbeCarts == {<<>>, <<GoodLine>>, <<BadLine>>}

\* The order requests.  A request that an earlier check rejects is never
\* inspected further, so the later parts of such a request range over a few
\* representative values only.
OrderRequests ==
    {r \in [present : FieldSets, dateId : DateIds \cup {UnknownDate},
            cart : Carts, dateError : BOOLEAN, productsError : BOOLEAN] :
        /\ r.present # RequiredFields =>
              r.dateId \in {"d1", UnknownDate} /\ r.cart \in ProbeCarts
              /\ ~r.dateError /\ ~r.productsError
        /\ (r.dateId \notin ActiveDates \/ r.dateError) =>
              r.cart \in ProbeCarts /\ ~r.productsError
        /\ (r.dateError => r.dateId = "d1")
        /\ (r.productsError => r.cart \in ProbeCarts)}

\* ------------------------------------------------------------ handleOrder
\* The claim's notion of a cart that must be rejected, stated on the
\* products table itself (independent of the validation loop).
BadCart(cart) ==
    \E i \in 1 .. Len(cart) :
        \/ cart[i].productId \notin ProductIds
        \/ ~products[cart[i].productId].active
        \/ cart[i].qty <= 0
        \/ cart[i].qty > products[cart[i].productId].stock_qty

\* The checks of an order request in their stated order, each with whether
\* it fails on this request and its message: the required fields, the
\* cart, the delivery date, then line by line the product's existence, its
\* active flag, its stock and the quantity.  Stated on the tables
\* themselves (independent of handleOrder's control flow).
Check(fails, message) == [fails |-> fails, message |-> message]

FieldChecks(r) ==
    << Check("firstName" \notin r.present, "Prenom obligatoire"),
       Check("lastName" \notin r.present, "Nom obligatoire"),
       Check("address" \notin r.present, "Adresse obligatoire"),
       Check("churchName" \notin r.present, "Nom d'eglise obligatoire"),
       Check("sectionName" \notin r.present, "Section obligatoire"),
       Check("deliveryAddress" \notin r.present,
             "Adresse de livraison obligatoire"),
       Check("dateId" \notin r.present, "Date de livraison obligatoire"),
       Check(r.cart = <<>>, "Panier vide") >>

LineChecks(cartItem) ==
    LET known == cartItem.productId \in ProductIds
        row   == products[cartItem.productId]
    IN << Check(~known, "Produit introuvable"),
          Check(known /\ ~row.active, "Produit non disponible"),
          Check(known /\ row.stock_qty < cartItem.qty, "Stock insuffisant"),
          Check(cartItem.qty <= 0, "Quantite invalide") >>

RECURSIVE CartChecks(_)
CartChecks(cart) ==
    IF cart = <<>> THEN <<>>
    ELSE LineChecks(Head(cart)) \o CartChecks(Tail(cart))

\* the checks as listed
Checks(r) ==
    FieldChecks(r)
      \o << Check(r.dateId \notin DateIds, "Date de livraison introuvable"),
            Check(r.dateId \in DateIds \ ActiveDates,
                  "Date de livraison indisponible") >>
      \o CartChecks(r.cart)

\* the checks with the two reads they depend on: a failed read of the
\* delivery date counts as a date not found, a failed read of the products
\* is a failure of its own before the first line
ChecksRead(r) ==
    FieldChecks(r)
      \o << Check(r.dateError \/ r.dateId \notin DateIds,
                  "Date de livraison introuvable"),
            Check(r.dateId \in DateIds \ ActiveDates,
                  "Date de livraison indisponible"),
            Check(r.productsError, "Erreur produits") >>
      \o CartChecks(r.cart)

Failing(checks) == {i \in 1 .. Len(checks) : checks[i].fails}

FirstFailure(checks) ==
    IF Failing(checks) = {} THEN None
    ELSE checks[CHOOSE i \in Failing(checks) :
                  \A j \in Failing(checks) : i <= j].message

\* products.select(...).in('id', productIds)
selectProducts(productIds) ==
    [p \in ProductIds \cap productIds |-> products[p]]

lineTotalCentsClient(product, cartItem) == cartItem.price * cartItem.qty
lineTotalCents(product, cartItem) == product.unit_price_cents * cartItem.qty

\* the checks on one cart line whose product row was found
lineErrorNoQty(product, cartItem) ==
    IF ~product.active THEN "Produit non disponible"
    ELSE IF product.stock_qty < cartItem.qty THEN "Stock insuffisant"
    ELSE None
lineError(product, cartItem) ==
    IF ~product.active THEN "Produit non disponible"
    ELSE IF product.stock_qty < cartItem.qty THEN "Stock insuffisant"
    ELSE IF cartItem.qty <= 0 THEN "Quantite invalide"
    ELSE None

\* the loop over the cart: first failing line wins, otherwise the validated
\* lines and their total
RECURSIVE buildOrderItems(_, _, _)
buildOrderItems(cart, prods, acc) ==
    IF cart = <<>> THEN acc
    ELSE LET cartItem == Head(cart) IN
         IF cartItem.productId \notin DOMAIN prods
           THEN [acc EXCEPT !.error = "Produit introuvable"]
         ELSE LET product == prods[cartItem.productId] IN
         IF lineError(product, cartItem) # None
           THEN [acc EXCEPT !.error = lineError(product, cartItem)]
         ELSE buildOrderItems(Tail(cart), prods,
                [error |-> None,
                 orderItems |-> Append(acc.orderItems,
                    [product_id |-> cartItem.productId,
                     unit_price_cents_snapshot |-> product.unit_price_cents,
                     qty |-> cartItem.qty,
                     line_total_cents |-> lineTotalCents(product, cartItem)]),
                 totalCents |-> acc.totalCents
                                  + lineTotalCents(product, cartItem)])


fieldErrorCartFirst(r) ==
    IF r.cart = <<>> THEN "Panier vide"
    ELSE IF "firstName" \notin r.present THEN "Prenom obligatoire"
    ELSE IF "lastName" \notin r.present THEN "Nom obligatoire"
    ELSE IF "address" \notin r.present THEN "Adresse obligatoire"
    ELSE IF "churchName" \notin r.present THEN "Nom d'eglise obligatoire"
    ELSE IF "sectionName" \notin r.present THEN "Section obligatoire"
    ELSE IF "deliveryAddress" \notin r.present
      THEN "Adresse de livraison obligatoire"
    ELSE IF "dateId" \notin r.present THEN "Date de livraison obligatoire"
    ELSE None
\* the checks on the request fields, in source order
fieldError(r) ==
    IF "firstName" \notin r.present THEN "Prenom obligatoire"
    ELSE IF "lastName" \notin r.present THEN "Nom obligatoire"
    ELSE IF "address" \notin r.present THEN "Adresse obligatoire"
    ELSE IF "churchName" \notin r.present THEN "Nom d'eglise obligatoire"
    ELSE IF "sectionName" \notin r.present THEN "Section obligatoire"
    ELSE IF "deliveryAddress" \notin r.present
      THEN "Adresse de livraison obligatoire"
    ELSE IF "dateId" \notin r.present THEN "Date de livraison obligatoire"
    ELSE IF r.cart = <<>> THEN "Panier vide"
    ELSE None

\* handleOrder up to the end of the cart loop: field checks, the read of
\* the delivery date, the read of the products, the loop.
handleOrder_validate(c) ==
    /\ Quiet
    /\ ckt[c].pc = "idle"
    /\ \E r \in OrderRequests :
         LET start == [Idle EXCEPT !.kind = "order",
                                   !.badCart = BadCart(r.cart),
                                   !.first = FirstFailure(Checks(r)),
                                   !.firstRead = FirstFailure(ChecksRead(r)),
                                   !.nFailing = Cardinality(Failing(Checks(r)))]
             fe    == fieldError(r)
             prods == selectProducts({r.cart[i].productId :
                                        i \in 1 .. Len(r.cart)})
             built == buildOrderItems(r.cart, prods,
                        [error |-> None, orderItems |-> <<>>,
                         totalCents |-> 0])
             reject == IF fe # None THEN response(start, 400, fe)
                       ELSE IF r.dateError \/ r.dateId \notin DateIds
                         THEN response(start, 400,
                                       "Date de livraison introuvable")
                       ELSE IF r.dateId \notin ActiveDates
                         THEN response(start, 400,
                                       "Date de livraison indisponible")
                       ELSE IF r.productsError
                         THEN response(start, 500, "Erreur produits")
                       ELSE IF built.error # None
                         THEN response(start, 400, built.error)
                       ELSE NoResp
         IN IF reject # NoResp
            THEN resp' = reject /\ UNCHANGED ckt
            ELSE /\ ckt' = [ckt EXCEPT ![c] =
                       [start EXCEPT !.pc = "insertOrder",
                                     !.orderItems = built.orderItems,
                                     !.totalCents = built.totalCents]]
                 /\ UNCHANGED resp
    /\ UNCHANGED <<products, orders, order_items, donations, nextOrderId,
                   nextDonationId, sessions, hook, decr>>

\* orders.insert({... payment_status: 'pending', total_amount_cents})
handleOrder_insertOrder(c) ==
    /\ Quiet
    /\ ckt[c].pc = "insertOrder"
    /\ \E orderError \in BOOLEAN :
         IF orderError
         THEN /\ resp' = response(ckt[c], 500, "Erreur creation commande")
              /\ ckt' = [ckt EXCEPT ![c] = Idle]
              /\ UNCHANGED <<orders, nextOrderId>>
         ELSE /\ nextOrderId <= MaxOrders
              /\ orders' = [o \in DOMAIN orders \cup {nextOrderId} |->
                    IF o = nextOrderId
                    THEN [payment_status |-> "pending",
                          total_amount_cents |-> ckt[c].totalCents,
                          stripe_checkout_session_id |-> NoSession,
                          stripe_payment_intent_id |-> NoIntent]
                    ELSE orders[o]]
              /\ nextOrderId' = nextOrderId + 1
              /\ ckt' = [ckt EXCEPT ![c].pc = "insertItems",
                                    ![c].id = nextOrderId]
              /\ UNCHANGED resp
    /\ UNCHANGED <<products, order_items, donations, nextDonationId,
                   sessions, hook, decr>>

\* order_items.insert(itemsWithOrderId); on error the header is deleted by
\* a call whose own result is not inspected
handleOrder_insertItems(c) ==
    /\ Quiet
    /\ ckt[c].pc = "insertItems"
    /\ \E itemsError \in BOOLEAN, deleteError \in BOOLEAN :
         IF itemsError
         THEN /\ orders' = IF deleteError THEN orders
                           ELSE [o \in DOMAIN orders \ {ckt[c].id} |->
                                   orders[o]]
              /\ resp' = response(ckt[c], 500, "Erreur articles")
              /\ ckt' = [ckt EXCEPT ![c] = Idle]
              /\ UNCHANGED order_items
         ELSE /\ ~deleteError
              /\ order_items' =
                    [o \in DOMAIN order_items \cup {ckt[c].id} |->
                       IF o = ckt[c].id THEN ckt[c].orderItems
                       ELSE order_items[o]]
              /\ ckt' = [ckt EXCEPT ![c].pc = "createSession"]
              /\ UNCHANGED <<orders, resp>>
    /\ UNCHANGED <<products, donations, nextOrderId, nextDonationId,
                   sessions, hook, decr>>

eq_any(rowId, id) == TRUE
\* the row filter .eq('id', order.id) of the update
eq_id(rowId, id) == rowId = id

\* stripe.checkout.sessions.create(...); on a throw the order is set to
\* failed by an update whose result is not inspected
handleOrder_createSession(c) ==
    /\ Quiet
    /\ ckt[c].pc = "createSession"
    /\ \E stripeError \in BOOLEAN, updateError \in BOOLEAN :
         IF stripeError
         THEN /\ orders' = IF updateError THEN orders
                           ELSE [o \in DOMAIN orders |->
                                   IF eq_id(o, ckt[c].id)
                                   THEN [orders[o] EXCEPT
                                           !.payment_status = "failed"]
                                   ELSE orders[o]]
              /\ resp' = response(ckt[c], 500, "Erreur Stripe")
              /\ ckt' = [ckt EXCEPT ![c] = Idle]
              /\ UNCHANGED sessions
         ELSE /\ ~updateError
              /\ sessions' = sessions \cup {SessionId("order", ckt[c].id)}
              /\ ckt' = [ckt EXCEPT ![c].pc = "saveSession",
                                    ![c].session =
                                        SessionId("order", ckt[c].id)]
              /\ UNCHANGED <<orders, resp>>
    /\ UNCHANGED <<products, order_items, donations, nextOrderId,
                   nextDonationId, hook, decr>>

\* (a checkout that would take the ordered quantities from stock itself)
handleOrder_saveSessionReserving(c) ==
    /\ Quiet
    /\ ckt[c].pc = "saveSession"
    /\ \E updateError \in BOOLEAN :
         orders' = IF updateError THEN orders
                   ELSE [orders EXCEPT
                           ![ckt[c].id].stripe_checkout_session_id =
                               ckt[c].session]
    /\ products' = [p \in ProductIds |->
                      [products[p] EXCEPT
                         !.stock_qty = @ - QtyOf(ckt[c].orderItems, p)]]
    /\ resp' = response(ckt[c], 200, None)
    /\ ckt' = [ckt EXCEPT ![c] = Idle]
    /\ UNCHANGED <<order_items, donations, nextOrderId,
                   nextDonationId, sessions, hook, decr>>

\* orders.update({stripe_checkout_session_id}) with the result not
\* inspected, then response(200, {url, order_id})
handleOrder_saveSession(c) ==
    /\ Quiet
    /\ ckt[c].pc = "saveSession"
    /\ \E updateError \in BOOLEAN :
         orders' = IF updateError THEN orders
                   ELSE [orders EXCEPT
                           ![ckt[c].id].stripe_checkout_session_id =
                               ckt[c].session]
    /\ resp' = response(ckt[c], 200, None)
    /\ ckt' = [ckt EXCEPT ![c] = Idle]
    /\ UNCHANGED <<products, order_items, donations, nextOrderId,
                   nextDonationId, sessions, hook, decr>>

\* --------------------------------------------------------- handleDonation
MinDonationCents == 100

DonationRequests ==
    {r \in [firstName : BOOLEAN, lastName : BOOLEAN,
            amountCents : {0, MinDonationCents - 1, MinDonationCents},
            donError : BOOLEAN] :
        /\ (~r.firstName => r.lastName /\ r.amountCents = MinDonationCents)
        /\ (~r.lastName => r.amountCents = MinDonationCents)
        /\ (r.donError =>
              r.firstName /\ r.lastName /\ r.amountCents = MinDonationCents)}

\* validation, then donations.insert({... payment_status: 'pending'})
handleDonation_insert(c) ==
    /\ Quiet
    /\ ckt[c].pc = "idle"
    /\ \E r \in DonationRequests :
         LET start  == [Idle EXCEPT !.kind = "donation"]
             reject == IF ~r.firstName
                         THEN response(start, 400, "Prenom obligatoire")
                       ELSE IF ~r.lastName
                         THEN response(start, 400, "Nom obligatoire")
                       ELSE IF r.amountCents = 0
                               \/ r.amountCents < MinDonationCents
                         THEN response(start, 400, "Montant minimum")
                       ELSE IF r.donError
                         THEN response(start, 500, "Erreur creation don")
                       ELSE NoResp
         IN IF reject # NoResp
            THEN /\ resp' = reject
                 /\ UNCHANGED <<ckt, donations, nextDonationId>>
            ELSE /\ nextDonationId <= MaxDonations
                 /\ donations' =
                      [d \in DOMAIN donations \cup {nextDonationId} |->
                         IF d = nextDonationId
                         THEN [payment_status |-> "pending",
                               amount_cents |-> r.amountCents,
                               stripe_checkout_session_id |-> NoSession,
                               stripe_payment_intent_id |-> NoIntent]
                         ELSE donations[d]]
                 /\ nextDonationId' = nextDonationId + 1
                 /\ ckt' = [ckt EXCEPT ![c] =
                       [start EXCEPT !.pc = "donationSession",
                                     !.id = nextDonationId]]
                 /\ UNCHANGED resp
    /\ UNCHANGED <<products, orders, order_items, nextOrderId, sessions,
                   hook, decr>>

\* stripe.checkout.sessions.create(...); on a throw the donation is deleted
\* by a call whose result is not inspected
handleDonation_createSession(c) ==
    /\ Quiet
    /\ ckt[c].pc = "donationSession"
    /\ \E stripeError \in BOOLEAN, deleteError \in BOOLEAN :
         IF stripeError
         THEN /\ donations' =
                   IF deleteError THEN donations
                   ELSE [d \in DOMAIN donations \ {ckt[c].id} |->
                           donations[d]]
              /\ resp' = response(ckt[c], 500, "Erreur Stripe")
              /\ ckt' = [ckt EXCEPT ![c] = Idle]
              /\ UNCHANGED sessions
         ELSE /\ ~deleteError
              /\ sessions' = sessions \cup {SessionId("donation", ckt[c].id)}
              /\ ckt' = [ckt EXCEPT ![c].pc = "donationSave",
                                    ![c].session =
                                        SessionId("donation", ckt[c].id)]
              /\ UNCHANGED <<donations, resp>>
    /\ UNCHANGED <<products, orders, order_items, nextOrderId,
                   nextDonationId, hook, decr>>

\* donations.update({stripe_checkout_session_id}) with the result not
\* inspected, then response(200, {url, donation_id})
handleDonation_saveSession(c) ==
    /\ Quiet
    /\ ckt[c].pc = "donationSave"
    /\ \E updateError \in BOOLEAN :
         donations' = IF updateError THEN donations
                      ELSE [donations EXCEPT
                              ![ckt[c].id].stripe_checkout_session_id =
                                  ckt[c].session]
    /\ resp' = response(ckt[c], 200, None)
    /\ ckt' = [ckt EXCEPT ![c] = Idle]
    /\ UNCHANGED <<products, orders, order_items, nextOrderId,
                   nextDonationId, sessions, hook, decr>>

\* exports.handler of the checkout function before the dispatch: a method
\* other than POST, or a body that is not JSON
checkout_reject(c) ==
    /\ Quiet
    /\ ckt[c].pc = "idle"
    /\ \E r \in {response(Idle, 405, "Method not allowed"),
                 response(Idle, 400, "Corps de requete invalide")} :
         resp' = r
    /\ UNCHANGED <<products, orders, order_items, donations, nextOrderId,
                   nextDonationId, sessions, ckt, hook, decr>>

\* ------------------------------------------- the datastore's procedures
\* The three procedures are SQL functions of the datastore.  They are
\* modelled from their contract: each runs as one transaction.
Db == [products |-> products, orders |-> orders, donations |-> donations,
       decr |-> decr]

confirmableAlways(row) == TRUE
\* the idempotence guard: only a record still pending can be confirmed
confirmable(row) == row.payment_status = "pending"

stockSufficientAlways(o) == TRUE
\* every product has enough stock for all the lines of order o
stockSufficient(o) ==
    \A p \in ProductIds : products[p].stock_qty >= QtyOf(ItemsOf(o), p)

\* confirm_order_payment(p_stripe_session_id, p_stripe_payment_intent):
\* guard, decrement each line's product by its quantity, mark paid
confirm_order_payment(sid, pi) ==
    LET m == {o \in DOMAIN orders :
                /\ orders[o].stripe_checkout_session_id = sid
                /\ confirmable(orders[o])}
    IN IF m = {} THEN [db |-> Db, success |-> FALSE]
       ELSE LET o == CHOOSE x \in m : TRUE IN
            IF ~stockSufficient(o) THEN [db |-> Db, success |-> FALSE]
            ELSE [db |-> [Db EXCEPT
                     !.products = [p \in ProductIds |->
                         [products[p] EXCEPT
                            !.stock_qty = @ - QtyOf(ItemsOf(o), p)]],
                     !.orders = [orders EXCEPT
                         ![o].payment_status = "paid",
                         ![o].stripe_payment_intent_id = pi],
                     !.decr = [decr EXCEPT
                         ![o] = IF @ < 2 THEN @ + 1 ELSE @]],
                  success |-> TRUE]

\* confirm_donation_payment: guard and mark paid, no stock effect
confirm_donation_payment(sid, pi) ==
    LET m == {d \in DOMAIN donations :
                /\ donations[d].stripe_checkout_session_id = sid
                /\ confirmable(donations[d])}
    IN IF m = {} THEN [db |-> Db, success |-> FALSE]
       ELSE [db |-> [Db EXCEPT !.donations =
                 [d \in DOMAIN donations |->
                    IF d \in m
                    THEN [donations[d] EXCEPT
                            !.payment_status = "paid",
                            !.stripe_payment_intent_id = pi]
                    ELSE donations[d]]],
             success |-> TRUE]

failableAlways(row) == TRUE
\* a record leaves pending for failed; terminal states are not regressed
failable(row) == row.payment_status = "pending"

\* mark_payment_failed(p_stripe_session_id)
mark_payment_failed(sid) ==
    LET hit(row) == row.stripe_checkout_session_id = sid /\ failable(row)
    IN [db |-> [Db EXCEPT
           !.orders = [o \in DOMAIN orders |->
               IF hit(orders[o])
               THEN [orders[o] EXCEPT !.payment_status = "failed"]
               ELSE orders[o]],
           !.donations = [d \in DOMAIN donations |->
               IF hit(donations[d])
               THEN [donations[d] EXCEPT !.payment_status = "failed"]
               ELSE donations[d]]],
        success |-> \E o \in DOMAIN orders : hit(orders[o])]

\* --------------------------------------------------------- the reconciler
EventKinds == {"checkout.session.completed", "checkout.session.expired",
               "payment_intent.payment_failed", "charge.refunded", "other"}

\* A call of the webhook function: method, whether the signature header
\* verifies, the event the body carries, and whether the datastore call
\* made while handling it returns an error.  ref says whether the event
\* carries its optional reference (metadata.session_id of a payment
\* intent, payment_intent of a charge).  An authentic event is about a
\* session of the processor and repeats its metadata verbatim; events can
\* be duplicated and can arrive in any order.  The datastore error is
\* drawn once per function that makes the call (handlePaymentFailed is
\* reached from two event kinds).
Notifications ==
    {n \in [post : BOOLEAN, sigOk : BOOLEAN, kind : EventKinds,
            sid : sessions \cup {ForeignSession}, ref : BOOLEAN,
            fault : BOOLEAN] :
        /\ (~n.post => n.sigOk /\ n.ref /\ ~n.fault
                       /\ n.kind = "checkout.session.completed")
        /\ (~n.sigOk => n.ref /\ ~n.fault)
        /\ (n.kind \in {"checkout.session.completed",
                        "checkout.session.expired"} => n.ref)
        /\ (n.kind = "other" => n.ref /\ ~n.fault /\ n.sid = ForeignSession)
        /\ (~n.ref => ~n.fault /\ n.sid = ForeignSession)
        /\ (n.sid = ForeignSession => ~n.fault)
        /\ (n.kind = "payment_intent.payment_failed" => ~n.fault)}

\* stripeEvent.data.object of notification n
EventObject(n) ==
    [id |-> n.sid,
     payment_intent |-> IF n.ref THEN PaymentIntentOf(n.sid) ELSE NoIntent,
     metadata_type |-> IF n.sid = ForeignSession THEN None ELSE n.sid[1],
     metadata_session_id |-> IF n.ref THEN n.sid ELSE NoSession]

\* stripe.webhooks.constructEvent: returns the event iff the signature
\* verifies, throws otherwise
constructEventUnchecked(sigOk) == TRUE
constructEvent(sigOk) == sigOk

\* the two returns that follow the routing
acknowledgeRetry(threw) ==
    IF threw THEN 500 ELSE 200
acknowledge(threw) ==
    IF threw THEN 200 ELSE 200

Outcome(d, threw, success) ==
    [db |-> d, threw |-> threw, success |-> success]

nonSuccessThrows(success) == ~success
\* what follows the RPC of an order: success=false is warned about, not
\* thrown (it may be a replay)
nonSuccessBenign(success) == FALSE

handlePaymentConfirmed(session, rpcError) ==
    IF session.metadata_type = "order"
    THEN IF rpcError THEN Outcome(Db, TRUE, FALSE)
         ELSE LET r == confirm_order_payment(session.id,
                                             session.payment_intent)
              IN Outcome(r.db, nonSuccessBenign(r.success), r.success)
    ELSE IF session.metadata_type = "donation"
    THEN IF rpcError THEN Outcome(Db, TRUE, FALSE)
         ELSE LET r == confirm_donation_payment(session.id,
                                                session.payment_intent)
              IN Outcome(r.db, FALSE, r.success)
    ELSE Outcome(Db, FALSE, FALSE)

handlePaymentFailed(sessionId, rpcError) ==
    IF rpcError THEN Outcome(Db, TRUE, FALSE)
    ELSE LET r == mark_payment_failed(sessionId)
         IN Outcome(r.db, FALSE, r.success)

\* (a refund that would put the refunded orders' items back into stock)
handleRefundRestock(charge, updateError) ==
    IF charge.payment_intent = NoIntent \/ updateError
    THEN Outcome(Db, FALSE, FALSE)
    ELSE LET hit == {o \in DOMAIN orders :
                       /\ orders[o].stripe_payment_intent_id
                            = charge.payment_intent
                       /\ orders[o].payment_status = "paid"}
         IN Outcome([Db EXCEPT
                !.orders = [o \in DOMAIN orders |->
                    IF o \in hit
                    THEN [orders[o] EXCEPT !.payment_status = "refunded"]
                    ELSE orders[o]],
                !.products = [p \in ProductIds |->
                    [products[p] EXCEPT !.stock_qty = @ +
                       SumSeq([o \in 1 .. MaxOrders |->
                                 IF o \in hit THEN QtyOf(ItemsOf(o), p)
                                 ELSE 0])]]],
              FALSE, hit # {})

hasPaymentIntentAlways(charge) == TRUE
\* the guard on charge.payment_intent before the update
hasPaymentIntent(charge) == charge.payment_intent # NoIntent

handleRefund(charge, updateError) ==
    IF ~hasPaymentIntent(charge) THEN Outcome(Db, FALSE, FALSE)
    ELSE IF updateError THEN Outcome(Db, FALSE, FALSE)
    ELSE Outcome([Db EXCEPT !.orders = [o \in DOMAIN orders |->
                    IF orders[o].stripe_payment_intent_id
                         = charge.payment_intent
                    THEN [orders[o] EXCEPT !.payment_status = "refunded"]
                    ELSE orders[o]]],
                 FALSE,
                 \E o \in DOMAIN orders :
                    orders[o].stripe_payment_intent_id
                      = charge.payment_intent)

\* the switch on stripeEvent.type
route(n) ==
    LET object == EventObject(n) IN
    CASE n.kind = "checkout.session.completed" ->
           handlePaymentConfirmed(object, n.fault)
      [] n.kind = "checkout.session.expired" ->
           handlePaymentFailed(object.id, n.fault)
      [] n.kind = "payment_intent.payment_failed" ->
           IF object.metadata_session_id # NoSession
           THEN handlePaymentFailed(object.metadata_session_id, n.fault)
           ELSE Outcome(Db, FALSE, FALSE)
      [] n.kind = "charge.refunded" -> handleRefund(object, n.fault)
      [] OTHER -> Outcome(Db, FALSE, FALSE)

\* exports.handler of the webhook function, one whole invocation: every
\* path makes at most one datastore call.  hook keeps the event only of a
\* request that was routed; a rejected request leaves its status.
handler ==
    /\ Quiet
    /\ \E n \in Notifications :
         LET r == IF ~n.post
                    THEN [out |-> Outcome(Db, FALSE, FALSE), statusCode |-> 405]
                  ELSE IF ~constructEvent(n.sigOk)
                    THEN [out |-> Outcome(Db, FALSE, FALSE), statusCode |-> 400]
                  ELSE [out |-> route(n),
                        statusCode |-> acknowledge(route(n).threw)]
         IN /\ products' = r.out.db.products
            /\ orders' = r.out.db.orders
            /\ donations' = r.out.db.donations
            /\ decr' = r.out.db.decr
            /\ hook' = IF ~n.post \/ ~constructEvent(n.sigOk)
                       THEN [NoHook EXCEPT !.post = n.post,
                                           !.sigOk = n.sigOk,
                                           !.statusCode = r.statusCode]
                       ELSE [post |-> n.post, sigOk |-> n.sigOk,
                             kind |-> n.kind, sid |-> n.sid, ref |-> n.ref,
                             fault |-> n.fault,
                             statusCode |-> r.statusCode,
                             threw |-> r.out.threw,
                             success |-> r.out.success]
    /\ UNCHANGED <<order_items, nextOrderId, nextDonationId, sessions, ckt,
                   resp>>

\* the invocation that produced a response ends: the response is with the
\* caller
Respond ==
    /\ ~Quiet
    /\ resp' = NoResp
    /\ hook' = NoHook
    /\ UNCHANGED <<products, orders, order_items, donations, nextOrderId,
                   nextDonationId, sessions, ckt, decr>>

\* ------------------------------------------------------ the specification
Init ==
    /\ products = [p \in ProductIds |->
                     [unit_price_cents |-> UnitPriceCents,
                      stock_qty |-> InitStock,
                      active |-> (p \in SellableIds)]]
    /\ orders = <<>>
    /\ order_items = <<>>
    /\ donations = <<>>
    /\ nextOrderId = 1
    /\ nextDonationId = 1
    /\ sessions = {}
    /\ ckt = [c \in Clients |-> Idle]
    /\ resp = NoResp
    /\ hook = NoHook
    /\ decr = [o \in OrderIds |-> 0]

Next ==
    \/ \E c \in Clients : checkout_reject(c)
    \/ \E c \in Clients : handleOrder_validate(c)
    \/ \E c \in Clients : handleOrder_insertOrder(c)
    \/ \E c \in Clients : handleOrder_insertItems(c)
    \/ \E c \in Clients : handleOrder_createSession(c)
    \/ \E c \in Clients : handleOrder_saveSession(c)
    \/ \E c \in Clients : handleDonation_insert(c)
    \/ \E c \in Clients : handleDonation_createSession(c)
    \/ \E c \in Clients : handleDonation_saveSession(c)
    \/ handler
    \/ Respond

Spec == Init /\ [][Next]_vars

\* ------------------------------------------------------------ properties
Completed == "checkout.session.completed"
Expired   == "checkout.session.expired"

\* the order a session id resolves to in the orders table
OrdersOfSession(sid) ==
    {o \in DOMAIN orders : orders[o].stripe_checkout_session_id = sid}

Confirmed(o) == o \in DOMAIN orders
                  /\ orders[o].payment_status \in {"paid", "refunded"}

\* C1: handling the payment-completed notification of an order again, after
\* a handling that confirmed it, takes nothing more from stock: every
\* order's items are taken from stock at most once, and exactly once for an
\* order that was confirmed; the later handling gets success=false, changes
\* no record, throws only if the datastore call itself returned an error,
\* and is answered 200.
C1_ReplayDecrementsOnce ==
    [][ /\ \A o \in OrderIds :
             decr'[o] = IF o \in DOMAIN orders'
                           /\ orders'[o].payment_status \in {"paid", "refunded"}
                        THEN 1 ELSE 0
        /\ \A o \in DOMAIN orders :
             ( /\ hook = NoHook
               /\ hook'.kind = Completed
               /\ hook'.sid = orders[o].stripe_checkout_session_id
               /\ Confirmed(o) )
             => /\ UNCHANGED <<products, orders, order_items, donations>>
                /\ ~hook'.success
                /\ (hook'.threw => hook'.fault)
                /\ hook'.statusCode = 200 ]_vars

C1_Witness ==
    /\ hook.kind = Completed
    /\ ~hook.fault /\ ~hook.success /\ hook.statusCode = 200
    /\ \E o \in OrdersOfSession(hook.sid) :
         /\ orders[o].payment_status = "paid"
         /\ decr[o] = 1
         /\ products["p1"].stock_qty = InitStock - QtyOf(ItemsOf(o), "p1")
         /\ products["p1"].stock_qty >= QtyOf(ItemsOf(o), "p1")

\* C2: no product's stock_qty is ever negative, also when several pending
\* orders of one product whose quantities together exceed the stock are
\* confirmed by notifications handled in any interleaving.
C2_StockNeverNegative ==
    \A p \in ProductIds : products[p].stock_qty >= 0

\* two orders of p1 that both passed checkout, together above the stock; one
\* was confirmed, the confirmation of the other was just refused
C2_Witness ==
    /\ hook.kind = Completed /\ ~hook.fault /\ ~hook.success
    /\ \E o1 \in DOMAIN orders, o2 \in OrdersOfSession(hook.sid) :
         /\ o1 # o2
         /\ orders[o1].payment_status = "paid"
         /\ orders[o2].payment_status = "pending"
         /\ QtyOf(ItemsOf(o1), "p1") + QtyOf(ItemsOf(o2), "p1") > InitStock
         /\ QtyOf(ItemsOf(o2), "p1") > products["p1"].stock_qty

\* C3: when handleOrder returns after the insert of the items failed, no
\* order header with the id it inserted remains.
C3_NoHeaderAfterItemsFailure ==
    (resp.kind = "order" /\ resp.error = "Erreur articles")
      => resp.id \notin DOMAIN orders

\* C4: a POST whose signature is missing or does not verify is answered 400
\* and changes no order, order item, donation or product.
C4_BadSignatureChangesNothing ==
    [][ (hook = NoHook /\ hook'.post /\ ~hook'.sigOk)
          => /\ hook'.statusCode = 400
             /\ UNCHANGED <<products, orders, order_items, donations>>
      ]_vars

\* a rejected notification while an order is pending with its session saved
\* (an authentic payment-completed for it would have confirmed it)
C4_Witness ==
    /\ hook.post /\ ~hook.sigOk /\ hook.statusCode = 400
    /\ \E o \in DOMAIN orders :
         /\ orders[o].payment_status = "pending"
         /\ orders[o].stripe_checkout_session_id \in sessions

C6_AuthenticatedAlways200 ==
    (hook.post /\ hook.sigOk) => hook.statusCode = 200

\* a handling whose datastore procedure returned an error and was thrown
C6_Witness ==
    hook.post /\ hook.sigOk /\ hook.fault /\ hook.threw
      /\ hook.statusCode = 200

\* C7: for every order whose items handleOrder has inserted, the total is
\* the sum of unit_price_cents_snapshot * qty over its items, every line
\* total is snapshot * qty, and every snapshot is the unit_price_cents of
\* the product row (never the price of the client's cart line).
LineAmounts(items) ==
    [i \in 1 .. Len(items) |->
        items[i].unit_price_cents_snapshot * items[i].qty]

C7_TotalFromServerPrices ==
    \A o \in DOMAIN orders \cap DOMAIN order_items :
        /\ orders[o].total_amount_cents = SumSeq(LineAmounts(order_items[o]))
        /\ \A i \in 1 .. Len(order_items[o]) :
             LET item == order_items[o][i] IN
             /\ item.product_id \in ProductIds
             /\ item.unit_price_cents_snapshot
                  = products[item.product_id].unit_price_cents
             /\ item.line_total_cents
                  = item.unit_price_cents_snapshot * item.qty

\* an order of two lines whose total differs from what the client's prices
\* would give
C7_Witness ==
    \E o \in DOMAIN orders \cap DOMAIN order_items :
        /\ Len(order_items[o]) = 2
        /\ orders[o].total_amount_cents = 2 * UnitPriceCents
        /\ \A cp \in ClientPrices : orders[o].total_amount_cents # 2 * cp

\* C8 (as amended): a checkout whose cart has a line that names a product
\* without a row, an inactive product, a qty <= 0 or a qty above the stock
\* is rejected with 400, or with 500 when the read of the products itself
\* returned an error; it inserts no order header and no order item.
C8_BadCartRejected ==
    /\ \A c \in Clients : ckt[c].pc # "idle" => ~ckt[c].badCart
    /\ (resp.kind = "order" /\ resp.badCart)
         => /\ resp.id = 0
            /\ \/ resp.statusCode = 400
               \/ resp.statusCode = 500 /\ resp.error = "Erreur produits"

\* a line above the stock that confirmed orders have left
C8_Witness ==
    /\ resp.kind = "order" /\ resp.badCart
    /\ resp.statusCode = 400 /\ resp.error = "Stock insuffisant"
    /\ products["p1"].stock_qty < InitStock

\* C8 as stated: such a checkout is always rejected with 400.
C8_BadCartRejected400 ==
    /\ \A c \in Clients : ckt[c].pc # "idle" => ~ckt[c].badCart
    /\ (resp.kind = "order" /\ resp.badCart)
         => (resp.id = 0 /\ resp.statusCode = 400)

\* C9: when handleOrder returns 200, the order row carries the id of the
\* session that was created for it.
C9_SessionIdStored ==
    (resp.kind = "order" /\ resp.statusCode = 200)
      => /\ resp.id \in DOMAIN orders
         /\ orders[resp.id].stripe_checkout_session_id = resp.session
         /\ resp.session \in sessions

\* C10: when handleOrder returns after the creation of the payment session
\* failed, the order exists with all its items, is failed and has no
\* session id.
C10_FailedOrderKept ==
    (resp.kind = "order" /\ resp.error = "Erreur Stripe")
      => /\ resp.id \in DOMAIN orders
         /\ resp.nItems > 0
         /\ Len(ItemsOf(resp.id)) = resp.nItems
         /\ orders[resp.id].payment_status = "failed"
         /\ orders[resp.id].stripe_checkout_session_id = NoSession

\* C11: when handleDonation returns after the creation of the payment
\* session failed, no donation with the id it inserted remains.
C11_NoDonationAfterSessionFailure ==
    (resp.kind = "donation" /\ resp.error = "Erreur Stripe")
      => resp.id \notin DOMAIN donations

\* a step of the reconciler that handles an authenticated notification
ReconcilerStep == hook = NoHook /\ hook'.post /\ hook'.sigOk

\* C12 (as amended): an order's payment_status leaves pending only in a
\* step of the reconciler that handles an authenticated notification, or in
\* the step of handleOrder in which the creation of the payment session of
\* that same order threw, and then to failed only.
C12_PendingLeftByReconcilerOrOwnFailure ==
    [][ \A o \in DOMAIN orders :
          ( /\ orders[o].payment_status = "pending"
            /\ o \in DOMAIN orders'
            /\ orders'[o].payment_status # "pending" )
          => \/ ReconcilerStep
             \/ \E c \in Clients :
                  /\ ckt[c].pc = "createSession" /\ ckt[c].id = o
                  /\ resp'.error = "Erreur Stripe" /\ resp'.id = o
                  /\ orders'[o].payment_status = "failed" ]_vars

\* handleOrder has just failed its own order while another order is still
\* pending
C12_Witness ==
    /\ resp.kind = "order" /\ resp.error = "Erreur Stripe"
    /\ resp.id \in DOMAIN orders
    /\ orders[resp.id].payment_status = "failed"
    /\ \E o \in DOMAIN orders \ {resp.id} :
         orders[o].payment_status = "pending"

\* C12 as stated: an order's payment_status leaves pending only in a step
\* of the reconciler.
C12_PendingLeftOnlyByReconciler ==
    [][ \A o \in DOMAIN orders :
          ( /\ orders[o].payment_status = "pending"
            /\ o \in DOMAIN orders'
            /\ orders'[o].payment_status # "pending" )
          => ReconcilerStep ]_vars

Refunded == "charge.refunded"

\* the row after a refund that names payment intent pi: a paid (or already
\* refunded) row of that intent is refunded, any other row is as before
AfterRefund(row, pi) ==
    IF row.stripe_payment_intent_id = pi
         /\ row.payment_status \in {"paid", "refunded"}
    THEN [row EXCEPT !.payment_status = "refunded"]
    ELSE row

\* C13: handling an authenticated charge-refunded notification that carries
\* a payment intent, with the datastore answering, sets every paid order and
\* every paid donation of that payment intent to refunded and leaves the
\* rows of any other payment intent as they were.
C13_RefundByPaymentIntent ==
    [][ ( /\ ReconcilerStep
          /\ hook'.kind = Refunded /\ hook'.ref /\ ~hook'.fault )
        => /\ DOMAIN orders' = DOMAIN orders
           /\ DOMAIN donations' = DOMAIN donations
           /\ \A o \in DOMAIN orders :
                orders'[o] = AfterRefund(orders[o], PaymentIntentOf(hook'.sid))
           /\ \A d \in DOMAIN donations :
                donations'[d] =
                  AfterRefund(donations[d], PaymentIntentOf(hook'.sid))
      ]_vars

\* ------------------------------------------------------------- liveness
\* the reconciler handles an authentic notification of the given kind for
\* session s, and the datastore answers
Deliver(s, kind) ==
    /\ handler
    /\ hook'.post /\ hook'.sigOk /\ ~hook'.fault
    /\ hook'.kind = kind /\ hook'.sid = s

\* Fair handling of notifications: every response is delivered, and for
\* every payment session both its payment-completed and its session-expired
\* notification are handled again and again as long as handling is possible.
LiveSpec ==
    /\ Spec
    /\ WF_vars(Respond)
    /\ \A s \in AllSessions :
         /\ SF_vars(Deliver(s, Completed))
         /\ SF_vars(Deliver(s, Expired))

Terminal(o) ==
    /\ o \in DOMAIN orders
    /\ orders[o].payment_status \in {"paid", "failed", "refunded"}

\* C14: under fair handling of notifications, every order for which
\* handleOrder returned 200 eventually has a terminal payment_status.
C14_CheckedOutOrderLeavesPending ==
    \A o \in OrderIds :
        (resp.kind = "order" /\ resp.statusCode = 200 /\ resp.id = o)
          ~> Terminal(o)

\* C15: no step of the checkout function (order or donation path, whatever
\* its outcome) changes the products table; a product row changes only in
\* the reconciler's handling of an authenticated payment-completed
\* notification of an order whose confirmation succeeded, and then only in
\* its stock_qty.
C15_StockChangesOnlyAtConfirmation ==
    [][ /\ (ckt' # ckt \/ resp' # resp) => products' = products
        /\ products' # products
             => /\ ReconcilerStep
                /\ hook'.kind = Completed /\ hook'.sid[1] = "order"
                /\ hook'.success
                /\ \A p \in ProductIds :
                     products'[p] = [products[p] EXCEPT
                                       !.stock_qty = products'[p].stock_qty]
      ]_vars

\* an order checkout has returned 200 and the stock is what it was at start
C15_Witness ==
    /\ resp.kind = "order" /\ resp.statusCode = 200 /\ resp.nItems > 0
    /\ QtyOf(ItemsOf(resp.id), "p1") > 0
    /\ products["p1"].stock_qty = InitStock
    /\ \A o \in OrderIds : decr[o] = 0

\* a handled notification that is authentic and routed to no datastore call
NoOpNotification(h) ==
    /\ h.post /\ h.sigOk
    /\ \/ h.kind = "other"
       \/ h.kind = Completed
            /\ EventObject(h).metadata_type \notin {"order", "donation"}
       \/ h.kind = "payment_intent.payment_failed"
            /\ EventObject(h).metadata_session_id = NoSession
       \/ h.kind = Refunded /\ EventObject(h).payment_intent = NoIntent

\* C16: an authenticated notification of a kind that is not routed, a
\* payment-completed whose metadata type is neither order nor donation, a
\* payment-intent-failed without session reference and a charge-refunded
\* without payment intent change no order, order item, donation or product
\* and are answered 200.
C16_NoOpNotificationChangesNothing ==
    [][ (hook = NoHook /\ NoOpNotification(hook'))
          => /\ hook'.statusCode = 200
             /\ ~hook'.threw
             /\ UNCHANGED <<products, orders, order_items, donations>>
      ]_vars

\* a charge-refunded without payment intent, handled while one order is
\* paid and another is pending with no payment intent yet
C16_Witness ==
    /\ hook.post /\ hook.sigOk /\ hook.kind = Refunded /\ ~hook.ref
    /\ hook.statusCode = 200
    /\ \E o1 \in DOMAIN orders, o2 \in DOMAIN orders :
         /\ orders[o1].payment_status = "paid"
         /\ orders[o2].payment_status = "pending"
         /\ orders[o2].stripe_payment_intent_id = NoIntent

\* C17 (as amended): handleOrder answers an order request on which some
\* check fails with the message of the earliest failing one, in the order
\* first name, last name, address, church name, section name, delivery
\* address, delivery date reference, non-empty cart, delivery date found,
\* delivery date active, read of the products, then per cart line product
\* found, active, stock_qty >= qty, qty > 0; a failed read of the delivery
\* date counts as date not found, a failed read of the products is answered
\* 500, every other failure 400; no order is inserted, and a request is
\* accepted only when no check fails.
C17_FirstFailingCheckWins ==
    /\ \A c \in Clients :
         (ckt[c].pc # "idle" /\ ckt[c].kind = "order")
           => ckt[c].firstRead = None
    /\ (resp.kind = "order" /\ resp.firstRead # None)
         => /\ resp.error = resp.firstRead
            /\ resp.statusCode =
                 IF resp.error = "Erreur produits" THEN 500 ELSE 400
            /\ resp.id = 0 /\ resp.nItems = 0

\* several checks fail on one request and the answer is not the message of
\* a line check although the first line fails too: an earlier check won
C17_Witness ==
    /\ resp.kind = "order" /\ resp.nFailing >= 3
    /\ resp.badCart
    /\ resp.error = "Section obligatoire" /\ resp.statusCode = 400

\* C17 as stated: the answer is always the message of the earliest failing
\* check of the list without the reads, with status 400.
C17_FirstListedCheckWins ==
    /\ \A c \in Clients :
         (ckt[c].pc # "idle" /\ ckt[c].kind = "order") => ckt[c].first = None
    /\ (resp.kind = "order" /\ resp.first # None)
         => /\ resp.error = resp.first
            /\ resp.statusCode = 400
            /\ resp.id = 0 /\ resp.nItems = 0

\* quantity of product p over the items of the orders whose payment was
\* confirmed (paid, or paid and later refunded)
ConfirmedQty(p) ==
    SumSeq([o \in 1 .. MaxOrders |->
              IF Confirmed(o) THEN QtyOf(ItemsOf(o), p) ELSE 0])

C19_TotalQtyWithinStock ==
    [][ \A c \in Clients :
          (ckt[c].pc = "idle" /\ ckt'[c].pc = "insertOrder")
            => \A p \in ProductIds :
                 QtyOf(ckt'[c].orderItems, p) <= products[p].stock_qty
      ]_vars

====
